---- MODULE Spec2Model ----
(***************************************************************************)
(* Model of the chat view of theglobe web client                           *)
(* (src/src/web/src/components/ChatPage.tsx): the session of messages and  *)
(* its mirror in localStorage, the exchange with the /chat endpoint, and   *)
(* the rate-limit countdown.                                               *)
(*                                                                         *)
(* Strings the code inspects character by character (the Retry-After       *)
(* header, the 'detail' text of a 429 body) are sequences of one-character *)
(* strings.  Message texts are sequences of words, " " being white space.  *)
(* A React handler, the render it causes and the effects of that render    *)
(* are one step.                                                           *)
(***************************************************************************)
EXTENDS Integers, Sequences, FiniteSets, TLC

VARIABLES
    now,               \* Date.now(), in milliseconds
    lang,              \* the i18n language t() resolves 'chat.welcome' in
    storage,           \* localStorage: the entries 'chatMessages' and 'conversationId'
    mounted,           \* whether a ChatPage instance is mounted
    messages,          \* useState<Message[]>
    inputValue,        \* useState('')
    isTyping,          \* useState(false)
    conversationId,    \* useState<string>('')
    retryUntil,        \* useState<number | null>(null)
    retrySecondsLeft,  \* useState<number>(0)
    timers,            \* the setInterval handles of the countdown effect not cleared yet
    inflight,          \* the fetches that have not settled yet
    sent,              \* number of chat requests issued so far
    mounts,            \* number of times the view was mounted
    last,              \* the step taken last and what it observed
    other,             \* the ChatPage of a second tab on the same localStorage
    currentView,       \* App: useState<ViewType>('blog')
    selectedPostId,    \* App: useState<string>('')
    entries,           \* the session history of the tab, one entry per page load or pushState
    cursor             \* the index of the current history entry

vars == <<now, lang, storage, mounted, messages, inputValue, isTyping,
          conversationId, retryUntil, retrySecondsLeft, timers, inflight, sent, mounts, last,
          other, currentView, selectedPostId, entries, cursor>>

\* The hooks of App and the history of the tab
appVars == <<currentView, selectedPostId, entries, cursor>>

----------------------------------------------------------------------------
(* Bounds of the model *)

MaxSends == 2
MaxSeconds == 2
MaxMillis == 0
MaxMounts == 1
MaxRemounts == 2
MaxTabSends == 1
MaxEntries == 3

(* Program constants *)

HistoryWindow == 10
DefaultRetrySec == 60
MsPerSecond == 1000

----------------------------------------------------------------------------
(* JavaScript values *)

Null == [t |-> "null"]
Undefined == [t |-> "undefined"]
JStr(s) == [t |-> "string", s |-> s]
JNum(n) == [t |-> "number", n |-> n]

\* A JSON object with the fields the client reads; a missing field is Undefined.
JObj(response, conversation_id, detail) ==
    [t |-> "object", response |-> response, conversation_id |-> conversation_id,
     detail |-> detail]

\* What response.json() / JSON.parse yields for a text that is not JSON.
Invalid == [t |-> "invalid"]

\* JavaScript truthiness of a value.
Truthy(v) ==
    CASE v.t = "null" -> FALSE
      [] v.t = "undefined" -> FALSE
      [] v.t = "invalid" -> FALSE
      [] v.t = "string" -> v.s # <<>>
      [] v.t = "number" -> v.n # 0
      [] OTHER -> TRUE

\* o?.[k] on a parsed JSON value: undefined on null and on primitives.
OptField(o, k) ==
    IF o.t = "object"
    THEN (CASE k = "response" -> o.response
            [] k = "conversation_id" -> o.conversation_id
            [] k = "detail" -> o.detail)
    ELSE Undefined

----------------------------------------------------------------------------
(* Strings *)

Digits == {"0", "1", "2", "3", "4", "5", "6", "7", "8", "9"}

DigitVal(c) ==
    CASE c = "0" -> 0 [] c = "1" -> 1 [] c = "2" -> 2 [] c = "3" -> 3
      [] c = "4" -> 4 [] c = "5" -> 5 [] c = "6" -> 6 [] c = "7" -> 7
      [] c = "8" -> 8 [] c = "9" -> 9

IsSpace(c) == c = " "

Drop(s, n) == SubSeq(s, n + 1, Len(s))

\* Length of the longest prefix of s whose characters are all in set.
RECURSIVE Span(_, _)
Span(s, set) ==
    IF s # <<>> /\ Head(s) \in set THEN 1 + Span(Tail(s), set) ELSE 0

\* Value of a non-empty sequence of decimal digits.
RECURSIVE DecimalValue(_)
DecimalValue(ds) ==
    IF ds = <<>> THEN 0
    ELSE DecimalValue(SubSeq(ds, 1, Len(ds) - 1)) * 10 + DigitVal(ds[Len(ds)])

NaN == [isNaN |-> TRUE, v |-> 0]
Num(n) == [isNaN |-> FALSE, v |-> n]

\* parseInt(s, 10): white space, an optional sign, then the longest run of
\* digits; what follows the digits is ignored; NaN when there is no digit.
parseInt(s) ==
    LET body == Drop(s, Span(s, {" "}))
        neg == body # <<>> /\ Head(body) = "-"
        signed == body # <<>> /\ Head(body) \in {"-", "+"}
        rest == IF signed THEN Tail(body) ELSE body
        n == Span(rest, Digits)
    IN  IF n = 0 THEN NaN
        ELSE LET v == DecimalValue(SubSeq(rest, 1, n))
             IN  Num(IF neg THEN 0 - v ELSE v)

IsPrefixOf(p, s) == Len(p) <= Len(s) /\ SubSeq(s, 1, Len(p)) = p

\* String.prototype.includes
Includes(s, needle) ==
    \E i \in 0 .. Len(s) : IsPrefixOf(needle, Drop(s, i))

\* String.prototype.trim
RECURSIVE TrimLeft(_)
TrimLeft(s) == IF s # <<>> /\ IsSpace(Head(s)) THEN TrimLeft(Tail(s)) ELSE s

RECURSIVE TrimRight(_)
TrimRight(s) ==
    IF s # <<>> /\ IsSpace(s[Len(s)]) THEN TrimRight(SubSeq(s, 1, Len(s) - 1)) ELSE s

NoTrim(s) == s

Trim(s) == TrimRight(TrimLeft(s))

----------------------------------------------------------------------------
(* The 429 branch: the retry delay *)

Second == <<"s", "e", "c", "o", "n", "d">>

\* Whether (\d+)\s*second matches s with the digits being s[i+1 .. i+d].
MatchesAt(s, i, d) ==
    /\ d >= 1
    /\ d <= Span(Drop(s, i), Digits)
    /\ \E k \in 0 .. Span(Drop(s, i + d), {" "}) : IsPrefixOf(Second, Drop(s, i + d + k))

MatchStarts(s) ==
    {i \in 0 .. Len(s) : \E d \in 1 .. Len(s) : MatchesAt(s, i, d)}

Min(S) == CHOOSE x \in S : \A y \in S : x <= y
Max(S) == CHOOSE x \in S : \A y \in S : x >= y

MatchSecondLast(s) ==
    IF MatchStarts(s) = {} THEN [found |-> FALSE, group |-> <<>>]
    ELSE LET i == Max(MatchStarts(s))
             d == Max({e \in 1 .. Len(s) : MatchesAt(s, i, e)})
         IN  [found |-> TRUE, group |-> SubSeq(s, i + 1, i + d)]

\* detail.match(/(\d+)\s*second/): the leftmost match, its digits taken
\* greedily; m[1] is the digit string. found = FALSE stands for null.
MatchSecond(s) ==
    IF MatchStarts(s) = {} THEN [found |-> FALSE, group |-> <<>>]
    ELSE LET i == Min(MatchStarts(s))
             d == Max({e \in 1 .. Len(s) : MatchesAt(s, i, e)})
         IN  [found |-> TRUE, group |-> SubSeq(s, i + 1, i + d)]

\* The body branch of the delay: response.json(), body?.detail, match. A
\* rejected json() and a 'detail' without .match both throw into the inner
\* catch, which keeps the default.
BodyRetrySec(body) ==
    IF body.t = "invalid" THEN DefaultRetrySec
    ELSE LET d == IF body.t = "null" THEN Undefined ELSE OptField(body, "detail")
             text == IF Truthy(d) THEN d ELSE JStr(<<>>)
         IN  IF text.t # "string" THEN DefaultRetrySec
             ELSE LET m == MatchSecond(text.s)
                  IN  IF m.found THEN parseInt(m.group).v ELSE DefaultRetrySec

\* retrySec of the 429 branch, from headers.get('Retry-After') and the body.
RetrySec(ra, body) ==
    IF Truthy(ra)
    THEN LET asNum == parseInt(ra.s)
         IN  IF ~asNum.isNaN THEN asNum.v ELSE DefaultRetrySec
    ELSE BodyRetrySec(body)

\* Math.ceil(x / 1000) for an integer x of either sign.
CeilSeconds(x) == 0 - ((0 - x) \div MsPerSecond)

SecondsLeftRoundedUp(until, t) ==
    LET c == (until - t) \div MsPerSecond + 1 IN IF c > 0 THEN c ELSE 0

\* secs of tick(): Math.max(0, Math.ceil((retryUntil - Date.now()) / 1000))
SecondsLeft(until, t) ==
    LET c == CeilSeconds(until - t) IN IF c > 0 THEN c ELSE 0

----------------------------------------------------------------------------
(* Messages *)

\* The text the filter of handleSendMessage looks for.
WelcomeNeedle == <<"sawasdee-ka", " ", "I-am-the", " ", "AI-assistant">>

\* t('chat.welcome') in the two languages of the resources.
Welcome(lng) ==
    IF lng = "th" THEN WelcomeNeedle \o <<" ", "here-to-help">>
    ELSE <<"Hello!", " ", "I'm-your", " ", "AI-assistant">>

ErrorText == <<"Sorry, I encountered an error. Please try again later.">>

RateLimitText(retrySec) ==
    <<"Rate limit exceeded. Try again in", " ", ToString(retrySec), " ", "seconds.">>

\* new Date() / new Date(isoString), and Date.prototype.toISOString as
\* JSON.stringify applies it.
Date(ms) == [t |-> "date", ms |-> ms]
ToISO(date) == [t |-> "iso", ms |-> date.ms]
FromISO(iso) == Date(iso.ms)

\* A Message. The id is the decimal string of the number kept here.
Message(id, text, sender, t) ==
    [id |-> id, text |-> text, sender |-> sender, timestamp |-> Date(t)]

TimedSeed(lng, t) == Message(t, Welcome(lng), "ai", t)

SeedMessage(lng, t) == Message(1, Welcome(lng), "ai", t)

UserMessage(input, t) == Message(t, Trim(input), "user", t)

AssistantMessage(text, t) == Message(t + 1, text, "ai", t)

PrependMessage(prev, m) == <<m>> \o prev

InsertBeforeLast(prev, m) ==
    IF prev = <<>> THEN <<m>>
    ELSE SubSeq(prev, 1, Len(prev) - 1) \o <<m, prev[Len(prev)]>>

AppendTwice(prev, m) == Append(Append(prev, m), m)

\* setMessages(prev => [...prev, m])
AppendMessage(prev, m) == Append(prev, m)

\* Array.prototype.map
MapSeq(s, F(_)) == [i \in 1 .. Len(s) |-> F(s[i])]

\* Array.prototype.slice(-n)
LastN(s, n) == IF Len(s) <= n THEN s ELSE SubSeq(s, Len(s) - n + 1, Len(s))

HistoryEntry(msg) ==
    [role |-> IF msg.sender = "user" THEN "user" ELSE "assistant", content |-> msg.text]

NotWelcome(msg) == ~Includes(msg.text, WelcomeNeedle)

\* conversationHistory of handleSendMessage, from the messages of the render
\* the handler was created in.
ConversationHistory(msgs) ==
    MapSeq(LastN(SelectSeq(msgs, NotWelcome), HistoryWindow), HistoryEntry)

PayloadWithId(userMessage, msgs, convId) ==
    [message |-> userMessage.text,
     conversation_history |-> ConversationHistory(msgs),
     conversation_id |-> JStr(convId)]

\* The body of the POST to /chat; an undefined conversation_id is left out
\* by JSON.stringify.
RequestPayload(userMessage, msgs, convId) ==
    [message |-> userMessage.text,
     conversation_history |-> ConversationHistory(msgs),
     conversation_id |-> IF convId # <<>> THEN JStr(convId) ELSE Undefined]

----------------------------------------------------------------------------
(* localStorage *)

\* A stored string. doc is what JSON.parse makes of it (Invalid when it
\* throws); [t |-> "empty"] is the empty string.
Text(doc) == [t |-> "text", doc |-> doc]
JArr(items) == [t |-> "array", items |-> items]

StoredTruthy(x) == x.t = "text" /\ x.doc.t # "empty"

StoredMessage(m) ==
    [t |-> "message", id |-> m.id, text |-> m.text, sender |-> m.sender,
     timestamp |-> ToISO(m.timestamp)]

\* JSON.stringify(messages)
Serialize(msgs) == Text(JArr(MapSeq(msgs, StoredMessage)))

NoNormalize(m, t) ==
    [id |-> m.id, text |-> m.text, sender |-> m.sender,
     timestamp |-> IF m.timestamp.t = "iso" THEN m.timestamp ELSE Date(t)]

\* m => ({...m, timestamp: m.timestamp ? new Date(m.timestamp) : new Date()})
Normalize(m, t) ==
    [id |-> m.id, text |-> m.text, sender |-> m.sender,
     timestamp |-> IF m.timestamp.t = "iso" THEN FromISO(m.timestamp) ELSE Date(t)]

NormalizeAll(items, t) ==
    LET F(m) == Normalize(m, t) IN MapSeq(items, F)

\* The body of the try block of the load effect: "throw" when JSON.parse,
\* .length or .map raises, "loaded" when setMessages(normalized) is reached.
ParseSaved(saved, t) ==
    LET parsed == saved.doc
        none == [kind |-> "none", msgs |-> <<>>]
        throw == [kind |-> "throw", msgs |-> <<>>]
    IN  CASE parsed.t = "invalid" -> throw
          [] parsed.t = "null" -> throw
          [] parsed.t = "string" -> IF Len(parsed.s) > 1 THEN throw ELSE none
          [] parsed.t = "array" ->
                IF Len(parsed.items) > 1
                THEN IF \E i \in 1 .. Len(parsed.items) : parsed.items[i].t = "null"
                     THEN throw
                     ELSE [kind |-> "loaded", msgs |-> NormalizeAll(parsed.items, t)]
                ELSE none
          [] OTHER -> none

NoCatchLoad(r) == r

\* try { ... } catch (error) { console.error(...) } around it.
CatchLoad(r) == IF r.kind = "throw" THEN [kind |-> "none", msgs |-> <<>>] ELSE r

\* The load effect's handling of 'chatMessages'.
LoadSaved(saved, t) ==
    IF ~StoredTruthy(saved) THEN [kind |-> "none", msgs |-> <<>>]
    ELSE CatchLoad(ParseSaved(saved, t))

SaveMessagesAlways(st, msgs) == [st EXCEPT !.chatMessages = Serialize(msgs)]

\* The effect on [messages]: the lone welcome message is not saved.
SaveMessages(st, msgs) ==
    IF Len(msgs) > 1 THEN [st EXCEPT !.chatMessages = Serialize(msgs)] ELSE st

SaveConversationIdAlways(st, convId) == [st EXCEPT !.conversationId = JStr(convId)]

\* The effect on [conversationId]
SaveConversationId(st, convId) ==
    IF convId # <<>> THEN [st EXCEPT !.conversationId = JStr(convId)] ELSE st

RemoveMessagesOnly(st) == [st EXCEPT !.chatMessages = Null]

\* localStorage.removeItem of both keys
RemoveBoth(st) == [chatMessages |-> Null, conversationId |-> Null]

----------------------------------------------------------------------------
(* The chat view *)

\* The step taken last: its name, the request and the response it handled,
\* whether it let an exception escape (a rejected promise, a throwing
\* effect), and the retrySecondsLeft of the renders it committed before the
\* one its effects ended in.
Last(op, req, resp, raised) ==
    [op |-> op, req |-> req, resp |-> resp, raised |-> raised, committed |-> <<>>]

\* An interval set by setInterval(tick, 1000): when it fires next, and the
\* retryUntil its tick closes over.
Interval(due, until) == [due |-> due, until |-> until]

KeepInterval(handles) == handles

\* The cleanup of the countdown effect: clearInterval(id)
ClearInterval(handles) == {}

InputDisabledWhileTyping == isTyping

\* disabled of the text input and of the send button
InputDisabled == isTyping \/ Truthy(retryUntil)
ButtonDisabled == Trim(inputValue) = <<>> \/ isTyping \/ Truthy(retryUntil)

\* A conversation an earlier visit left in localStorage: the welcome message
\* and twelve turns.
SavedSession ==
    [i \in 1 .. 13 |->
        IF i = 1 THEN SeedMessage("th", 1000)
        ELSE IF i % 2 = 0 THEN Message(1000 + 10 * i, <<"question">>, "user", 1000 + 10 * i)
        ELSE Message(1000 + 10 * i + 1, <<"answer">>, "ai", 1000 + 10 * i)]

InitialStorages ==
    { [chatMessages |-> Null, conversationId |-> Null],
      [chatMessages |-> Serialize(SavedSession), conversationId |-> JStr(<<"a">>)] }

\* The state of the hooks while no ChatPage is mounted.
NoView ==
    /\ mounted = FALSE
    /\ messages = <<>>
    /\ inputValue = <<>>
    /\ isTyping = FALSE
    /\ conversationId = <<>>
    /\ retryUntil = Null
    /\ retrySecondsLeft = 0
    /\ timers = {}

\* The languages of the i18n resources; the language switcher of the header
\* decides which one the view is rendered in.
Languages == {"th", "en"}

\* The ChatPage of a second tab: the part of its state the shared storage
\* bears on. pending: its request is in flight.
TabView(isMounted, msgs, convId, pending) ==
    [mounted |-> isMounted, messages |-> msgs, conversationId |-> convId,
     pending |-> pending]

NoTab == TabView(FALSE, <<>>, <<>>, FALSE)

ReloadOnStorage(view, st) ==
    IF view.mounted /\ LoadSaved(st.chatMessages, now).kind = "loaded"
    THEN [view EXCEPT !.messages = LoadSaved(st.chatMessages, now).msgs]
    ELSE view

\* What a write to localStorage does in another tab's ChatPage: the browser
\* sends that tab a 'storage' event, and ChatPage listens to none; it reads
\* storage in its mount effect only.
OnStorage(view, st) == view

\* The second tab after a step of this one.
OtherTabSees ==
    other' = IF storage' # storage THEN OnStorage(other, storage') ELSE other

\* A history entry: the state pushState gave it (null for the entry of the
\* page load) and the view and post its URL names.
Url(view, postId) == [view |-> view, postId |-> postId]
HistoryState(view, postId) == [t |-> "object", view |-> view, postId |-> postId]
Entry(state, url) == [state |-> state, url |-> url]

\* The initial load effect of App: the view and post of location.pathname.
InitialView(url) ==
    IF url.view = "post-detail"
    THEN (IF url.postId # <<>> THEN Url("post-detail", url.postId) ELSE Url("blog", <<>>))
    ELSE Url(url.view, <<>>)

\* App after the page load at url and its initial load effect.
LoadedAt(url) ==
    /\ currentView = InitialView(url).view
    /\ selectedPostId = InitialView(url).postId
    /\ entries = <<Entry(Null, url)>>
    /\ cursor = 1

\* The page loaded at one of urls, the chat view not shown.
InitAt(storages, urls) ==
    /\ now = 5000
    /\ lang \in Languages
    /\ storage \in storages
    /\ NoView
    /\ inflight = {}
    /\ sent = 0
    /\ mounts = 0
    /\ last = Last("init", Null, Null, FALSE)
    /\ other = NoTab
    /\ \E url \in urls : LoadedAt(url)

InitWith(storages) == InitAt(storages, {Url("blog", <<>>)})

Init == InitWith(InitialStorages)

\* Mounting ChatPage: the useState initial values, then the load effect and
\* the two save effects of the render the load causes.
MountView ==
    /\ LET r == LoadSaved(storage.chatMessages, now)
           msgs == IF r.kind = "loaded" THEN r.msgs ELSE <<SeedMessage(lang, now)>>
           convId == IF Truthy(storage.conversationId)
                     THEN storage.conversationId.s ELSE <<>>
       IN  /\ messages' = msgs
           /\ conversationId' = convId
           /\ storage' = SaveConversationId(SaveMessages(storage, msgs), convId)
    /\ mounted' = TRUE
    /\ inputValue' = <<>>
    /\ isTyping' = FALSE
    /\ retryUntil' = Null
    /\ retrySecondsLeft' = 0
    /\ last' = Last("mount", Null, Null, LoadSaved(storage.chatMessages, now).kind = "throw")
    /\ OtherTabSees
    /\ UNCHANGED <<now, lang, timers, inflight, sent>>

\* Unmounting ChatPage: the effect's cleanup clears the interval and the
\* fetches lose their component.
UnmountView ==
    /\ mounted' = FALSE
    /\ messages' = <<>>
    /\ inputValue' = <<>>
    /\ isTyping' = FALSE
    /\ conversationId' = <<>>
    /\ retryUntil' = Null
    /\ retrySecondsLeft' = 0
    /\ timers' = ClearInterval(timers)
    /\ inflight' = {[r EXCEPT !.live = FALSE] : r \in inflight}
    /\ last' = Last("unmount", Null, Null, FALSE)
    /\ UNCHANGED <<now, lang, storage, sent, other>>

\* The render of App for the view it has been given: ChatPage is rendered
\* while currentView is 'chat'.
Show(view) ==
    IF view = "chat" /\ ~mounted THEN MountView
    ELSE IF view # "chat" /\ mounted THEN UnmountView
    ELSE /\ last' = Last("navigate", Null, Null, FALSE)
         /\ UNCHANGED <<now, lang, storage, mounted, messages, inputValue, isTyping,
                        conversationId, retryUntil, retrySecondsLeft, timers, inflight,
                        sent, other>>

\* window.history.pushState: the entries after the current one are dropped.
PushState(state, url) ==
    /\ entries' = Append(SubSeq(entries, 1, cursor), Entry(state, url))
    /\ cursor' = cursor + 1

\* The body the navigateTo functions share: the two setters and pushState.
NavigateTo(view, postId, state) ==
    /\ currentView' = view
    /\ selectedPostId' = postId
    /\ PushState(state, Url(view, postId))
    /\ Show(view)

navigateToPost(postId) ==
    NavigateTo("post-detail", postId, HistoryState("post-detail", JStr(postId)))

navigateToBlog == NavigateTo("blog", <<>>, HistoryState("blog", Undefined))
navigateToAdmin == NavigateTo("admin", <<>>, HistoryState("admin", Undefined))
navigateToSearch == NavigateTo("search", <<>>, HistoryState("search", Undefined))
navigateToChat == NavigateTo("chat", <<>>, HistoryState("chat", Undefined))

\* event.state.postId || ''
PoppedPostId(state) == IF Truthy(state.postId) THEN state.postId.s ELSE <<>>

\* handlePopState, for the state of the entry that became current
handlePopState(state) ==
    IF state # Null /\ state.view # ""
    THEN /\ currentView' = state.view
         /\ selectedPostId' = PoppedPostId(state)
         /\ Show(state.view)
    ELSE /\ UNCHANGED <<currentView, selectedPostId>>
         /\ Show(currentView)

\* The browser's back and forward buttons: the current entry moves and the
\* popstate event carries its state.
Back ==
    /\ cursor > 1
    /\ cursor' = cursor - 1
    /\ handlePopState(entries[cursor - 1].state)
    /\ UNCHANGED <<entries, mounts>>

Forward ==
    /\ cursor < Len(entries)
    /\ cursor' = cursor + 1
    /\ handlePopState(entries[cursor + 1].state)
    /\ UNCHANGED <<entries, mounts>>

\* The chat button of the header, for the n-th visit of the chat view at
\* most.
MountUpTo(n) ==
    /\ ~mounted
    /\ mounts < n
    /\ mounts' = mounts + 1
    /\ navigateToChat

Mount == MountUpTo(MaxMounts)

\* onBack of ChatPage, which is navigateToBlog
Unmount ==
    /\ mounted
    /\ navigateToBlog
    /\ UNCHANGED mounts

InputSamples == { <<" ">>, <<" ", "hi", " ">> }

\* onChange of the text input
ChangeInput(v) ==
    /\ mounted
    /\ ~InputDisabled
    /\ v # inputValue
    /\ inputValue' = v
    /\ last' = Last("other", Null, Null, FALSE)
    /\ UNCHANGED <<now, lang, storage, mounted, messages, isTyping, conversationId,
                   retryUntil, retrySecondsLeft, timers, inflight, sent, mounts>>
    /\ UNCHANGED <<other, appVars>>

\* The request a fetch carries until it settles.
Request(n, payload) == [n |-> n, live |-> TRUE, payload |-> payload]

\* handleSendMessage up to the await of fetch.
handleSendMessage ==
    IF Trim(inputValue) = <<>>
    THEN /\ last' = Last("send-empty", Null, Null, FALSE)
         /\ UNCHANGED <<now, lang, storage, mounted, messages, inputValue, isTyping,
                        conversationId, retryUntil, retrySecondsLeft, timers, inflight,
                        sent, mounts, other, appVars>>
    ELSE LET userMessage == UserMessage(inputValue, now)
             req == Request(sent + 1, RequestPayload(userMessage, messages, conversationId))
         IN  /\ sent < MaxSends
             /\ messages' = AppendMessage(messages, userMessage)
             /\ inputValue' = <<>>
             /\ isTyping' = TRUE
             /\ inflight' = inflight \cup {req}
             /\ sent' = sent + 1
             /\ storage' = SaveMessages(storage, messages')
             /\ last' = Last("send", req, Null, FALSE)
             /\ OtherTabSees
             /\ UNCHANGED <<now, lang, mounted, conversationId, retryUntil,
                            retrySecondsLeft, timers, mounts, appVars>>

\* onClick of the send button
ClickSend ==
    /\ mounted
    /\ ~ButtonDisabled
    /\ handleSendMessage

\* handleKeyPress with Enter, on the text input
PressEnter ==
    /\ mounted
    /\ ~InputDisabled
    /\ handleSendMessage

ClearEverything ==
    /\ mounted
    /\ messages' = <<SeedMessage(lang, now)>>
    /\ conversationId' = <<>>
    /\ isTyping' = FALSE
    /\ retryUntil' = Null
    /\ retrySecondsLeft' = 0
    /\ timers' = ClearInterval(timers)
    /\ storage' = RemoveBoth(storage)
    /\ last' = Last("clear", Null, Null, FALSE)
    /\ OtherTabSees
    /\ UNCHANGED <<now, lang, mounted, inputValue, inflight, sent, mounts, appVars>>

\* clearChatHistory, and the two save effects of the render it causes.
clearChatHistory ==
    /\ mounted
    /\ messages' = <<SeedMessage(lang, now)>>
    /\ conversationId' = <<>>
    /\ storage' = SaveConversationId(SaveMessages(RemoveBoth(storage), messages'),
                                     conversationId')
    /\ last' = Last("clear", Null, Null, FALSE)
    /\ OtherTabSees
    /\ UNCHANGED <<now, lang, mounted, inputValue, isTyping, retryUntil,
                   retrySecondsLeft, timers, inflight, sent, mounts, appVars>>

----------------------------------------------------------------------------
(* The response of the /chat endpoint *)

Reject == [kind |-> "reject", status |-> 0, retryAfter |-> Null, body |-> Invalid]
Http(status, retryAfter, body) ==
    [kind |-> "http", status |-> status, retryAfter |-> retryAfter, body |-> body]

\* response.ok
Ok(resp) == resp.status \in 200 .. 299

TryBranchNoRate(resp) ==
    IF resp.kind = "reject" \/ ~Ok(resp) THEN "throw"
    ELSE IF resp.body.t \in {"invalid", "null"} THEN "throw"
    ELSE "success"

\* The try block after the await of fetch: where it ends.
TryBranch(resp) ==
    IF resp.kind = "reject" THEN "throw"
    ELSE IF ~Ok(resp) THEN (IF resp.status = 429 THEN "rate" ELSE "throw")
    ELSE IF resp.body.t \in {"invalid", "null"} THEN "throw"
    ELSE "success"

NoCatchBranch(b) == b

\* catch (error) { ... append the error notice ... }
CatchBranch(b) == IF b = "throw" THEN "error" ELSE b

Branch(resp) == CatchBranch(TryBranch(resp))

\* The countdown effect, run for a changed retryUntil at time t: the cleanup
\* of the run before, then tick() at once and the interval; a deadline
\* already reached is cleared by that tick and the effect runs again for
\* null.
Countdown(until, t, handles) ==
    IF ~Truthy(until)
    THEN [retryUntil |-> until, secs |-> 0, timers |-> ClearInterval(handles)]
    ELSE LET secs == SecondsLeft(until.n, t)
             set == ClearInterval(handles) \cup {Interval(t + MsPerSecond, until.n)}
         IN  IF secs <= 0
             THEN [retryUntil |-> Null, secs |-> 0, timers |-> ClearInterval(set)]
             ELSE [retryUntil |-> until, secs |-> secs, timers |-> set]

\* setRetryUntil(until); setRetrySecondsLeft(retrySec): the render they
\* commit shows retrySec; then the effect on [retryUntil] runs if the value
\* changed.
ArmBackoff(retrySec, t) ==
    LET until == JNum(t + retrySec * MsPerSecond)
        after == IF until = retryUntil
                 THEN [retryUntil |-> until, secs |-> retrySec, timers |-> timers]
                 ELSE Countdown(until, t, timers)
    IN  [retryUntil |-> after.retryUntil, secs |-> after.secs, timers |-> after.timers,
         committed |-> <<retrySec>>]

\* The message the exchange ends with.
ReplyMessage(resp, t) ==
    CASE Branch(resp) = "success" -> AssistantMessage(resp.body.response.s, t)
      [] Branch(resp) = "rate" ->
            AssistantMessage(RateLimitText(RetrySec(resp.retryAfter, resp.body)), t)
      [] OTHER -> AssistantMessage(ErrorText, t)

KeepConversationId(resp) == conversationId

\* if (data.conversation_id) setConversationId(data.conversation_id)
NextConversationId(resp) ==
    IF Branch(resp) = "success" /\ Truthy(resp.body.conversation_id)
    THEN resp.body.conversation_id.s
    ELSE conversationId

ReconcilesAlways(req) == TRUE

\* Whether the setters called after the await still reach a mounted
\* component: they belong to the instance that issued req.
Reconciles(req) == req.live

\* handleSendMessage after the await of fetch, for the fetch of req settling
\* with resp, and the effects of the render it causes. The setters of an
\* unmounted component do nothing.
Settle(req, resp) ==
    /\ req \in inflight
    /\ inflight' = inflight \ {req}
    /\ IF ~Reconciles(req)
       THEN /\ last' = Last("dropped", req, resp, FALSE)
            /\ UNCHANGED <<storage, messages, isTyping, conversationId, retryUntil,
                           retrySecondsLeft, timers>>
       ELSE /\ isTyping' = FALSE
            /\ IF Branch(resp) = "throw"
               THEN /\ last' = Last("settle", req, resp, TRUE)
                    /\ UNCHANGED <<storage, messages, conversationId, retryUntil,
                                   retrySecondsLeft, timers>>
               ELSE /\ messages' = AppendMessage(messages, ReplyMessage(resp, now))
                    /\ conversationId' = NextConversationId(resp)
                    /\ storage' = LET st == SaveMessages(storage, messages')
                                  IN  IF conversationId' # conversationId
                                      THEN SaveConversationId(st, conversationId')
                                      ELSE st
                    /\ IF Branch(resp) = "rate"
                       THEN LET b == ArmBackoff(RetrySec(resp.retryAfter, resp.body), now)
                            IN  /\ retryUntil' = b.retryUntil
                                /\ retrySecondsLeft' = b.secs
                                /\ timers' = b.timers
                                /\ last' = [Last("rate", req, resp, FALSE)
                                               EXCEPT !.committed = b.committed]
                       ELSE /\ last' = Last(Branch(resp), req, resp, FALSE)
                            /\ UNCHANGED <<retryUntil, retrySecondsLeft, timers>>
    /\ OtherTabSees
    /\ UNCHANGED <<now, lang, mounted, inputValue, sent, mounts, appVars>>

\* tick() called by the interval i once it is due. A tick that finds the
\* deadline reached clears retryUntil, and the effect runs for null.
tick(i) ==
    /\ mounted
    /\ i \in timers
    /\ now >= i.due
    /\ LET secs == SecondsLeft(i.until, now)
       IN  IF secs <= 0
           THEN LET c == Countdown(Null, now, timers)
                IN  /\ retryUntil' = c.retryUntil
                    /\ retrySecondsLeft' = c.secs
                    /\ timers' = IF retryUntil = Null THEN timers ELSE c.timers
           ELSE /\ retrySecondsLeft' = secs
                /\ timers' = (timers \ {i}) \cup {Interval(i.due + MsPerSecond, i.until)}
                /\ UNCHANGED retryUntil
    /\ last' = Last("tick", Null, Null, FALSE)
    /\ UNCHANGED <<now, lang, storage, mounted, messages, inputValue, isTyping,
                   conversationId, inflight, sent, mounts, other, appVars>>

\* Whether an interval is due.
Due == \E i \in timers : now >= i.due

\* Time passes, by a millisecond or by a second; a due interval fires before
\* more time passes. Whole seconds are followed only while an interval is
\* armed: otherwise the view reads the clock for ids and timestamps alone.
Advance(d) ==
    /\ ~Due
    /\ IF d = 1 THEN (now - 5000) % MsPerSecond < MaxMillis
                ELSE timers # {} /\ (now - 5000) \div MsPerSecond < MaxSeconds
    /\ now' = now + d
    /\ last' = Last("other", Null, Null, FALSE)
    /\ UNCHANGED <<lang, storage, mounted, messages, inputValue, isTyping, conversationId,
                   retryUntil, retrySecondsLeft, timers, inflight, sent, mounts, other,
                   appVars>>

\* Responses of the endpoint
Hi == JStr(<<"hi">>)
Detail(s) == JObj(Undefined, Undefined, JStr(s))

Responses ==
    { Reject,
      Http(500, Null, Invalid),
      Http(200, Null, Invalid),
      Http(200, Null, Null),
      Http(200, Null, JObj(Hi, Undefined, Undefined)),
      Http(200, Null, JObj(Hi, JStr(<<"a">>), Undefined)),
      Http(200, Null, JObj(Hi, JStr(<<"b">>), Undefined)),
      Http(429, JStr(<<"2">>), Detail(<<"1", " ">> \o Second)),
      Http(429, Null, Detail(<<"i", "n", " ", "1", " ">> \o Second)) }

\* Values of the Retry-After header and bodies of a 429 response
RetryAfterSamples ==
    { Null,
      JStr(<<>>),
      JStr(<<"3", "0">>),
      JStr(<<"2">>),
      JStr(<<"0">>),
      JStr(<<"-", "1">>),
      JStr(<<" ", "7">>),
      JStr(<<"3", "x">>),
      JStr(<<"1", ".", "5">>),
      JStr(<<"a", "b", "c">>),
      JStr(<<"x", "7">>) }

RetryBodySamples ==
    { Invalid,
      Null,
      JNum(45),
      JStr(<<"4", "5", " ", "s", "e", "c", "o", "n", "d", "s">>),
      JObj(Undefined, Undefined, Undefined),
      JObj(Undefined, Undefined, JNum(45)),
      JObj(Undefined, Undefined, Null),
      Detail(<<"r", "e", "t", "r", "y", " ", "i", "n", " ", "4", "5", " ", "s", "e", "c", "o", "n", "d", "s">>),
      Detail(<<"4", "5", "s", "e", "c", "o", "n", "d">>),
      Detail(<<"4", " ", "5", " ", "s", "e", "c", "o", "n", "d", "s">>),
      Detail(<<"1", "0", " ", "s", "e", "c", "o", "n", "d", "s", " ", "o", "r", " ", "2", "0", " ", "s", "e", "c", "o", "n", "d", "s">>),
      Detail(<<"s", "e", "c", "o", "n", "d", "s", " ", "5">>),
      Detail(<<"1", "2", " ", "m", "i", "n", "u", "t", "e", "s">>),
      Detail(<<>>),
      Detail(<<"0", "0", "7", " ", " ", "s", "e", "c", "o", "n", "d">>),
      Detail(<<"i", "n", " ", "1", " ", "s", "e", "c", "o", "n", "d">>) }

RetryResponses ==
    {Http(429, ra, body) : ra \in RetryAfterSamples, body \in RetryBodySamples}

\* What an earlier visit, another script or a damaged profile can have left
\* under 'chatMessages'
SavedShort ==
    <<SeedMessage("th", 1000), Message(1020, <<"question">>, "user", 1020),
      Message(1031, <<"answer">>, "ai", 1030)>>

StoredSamples ==
    { Null,
      Text([t |-> "empty"]),
      Text(Invalid),
      Text(Null),
      Text(JNum(5)),
      Text(JStr(<<"a">>)),
      Text(JStr(<<"a", "b">>)),
      Text(JObj(Undefined, Undefined, Undefined)),
      Text(JArr(<<>>)),
      Text(JArr(<<Null>>)),
      Text(JArr(<<Null, Null>>)),
      Text(JArr(<<StoredMessage(SavedShort[1]), Null>>)),
      Text(JArr(<<Null, StoredMessage(SavedShort[2])>>)),
      Text(JArr(<<StoredMessage(SavedShort[1])>>)),
      Text(JArr(<<StoredMessage(SavedShort[1]),
                  [StoredMessage(SavedShort[2]) EXCEPT !.timestamp = Undefined]>>)),
      Serialize(SavedShort),
      Serialize(SavedSession) }

LoadStorages ==
    {[chatMessages |-> m, conversationId |-> c] :
        m \in StoredSamples, c \in {Null, JStr(<<>>), JStr(<<"a">>)}}

Next ==
    \/ Mount
    \/ Unmount
    \/ \E v \in InputSamples : ChangeInput(v)
    \/ ClickSend
    \/ PressEnter
    \/ clearChatHistory
    \/ \E req \in inflight, resp \in Responses : Settle(req, resp)
    \/ \E i \in timers : tick(i)
    \/ \E d \in {1, MsPerSecond} : Advance(d)

Spec == Init /\ [][Next]_vars

\* The exchange with every sampled 429 response, the clock standing still.
NextRetry ==
    \/ Mount
    \/ \E v \in InputSamples : ChangeInput(v)
    \/ ClickSend
    \/ \E req \in inflight, resp \in RetryResponses : Settle(req, resp)

SpecRetry == Init /\ [][NextRetry]_vars

\* The mount of the view on every sampled content of localStorage.
NextLoad ==
    \/ Mount
    \/ Unmount
    \/ \E v \in InputSamples : ChangeInput(v)

InitLoad == InitWith(LoadStorages)

SpecLoad == InitLoad /\ [][NextLoad]_vars

\* A second passes while an interval is pending and none is due.
Elapse ==
    /\ timers # {}
    /\ ~Due
    /\ now' = now + MsPerSecond
    /\ last' = Last("other", Null, Null, FALSE)
    /\ UNCHANGED <<lang, storage, mounted, messages, inputValue, isTyping, conversationId,
                   retryUntil, retrySecondsLeft, timers, inflight, sent, mounts, other,
                   appVars>>

\* The countdown left to run: the exchanges are as in Next, a second passes
\* only while an interval is pending, and the clock is not cut off. The
\* browser fires a due interval and time goes on.
CountdownResponses ==
    { Http(200, Null, JObj(Hi, Undefined, Undefined)),
      Http(429, JStr(<<"2">>), Detail(<<>>)),
      Http(429, Null, Detail(<<"i", "n", " ", "1", " ">> \o Second)) }

NextCountdown ==
    \/ Mount
    \/ Unmount
    \/ \E v \in InputSamples : ChangeInput(v)
    \/ ClickSend
    \/ \E req \in inflight, resp \in CountdownResponses : Settle(req, resp)
    \/ \E i \in timers : tick(i)
    \/ Elapse

SpecCountdown ==
    /\ Init
    /\ [][NextCountdown]_vars
    /\ WF_vars(\E i \in timers : tick(i))
    /\ WF_vars(Elapse)

\* This tab after a write of the second one.
ThisTabSees ==
    LET view == TabView(mounted, messages, conversationId, isTyping)
        seen == IF storage' # storage THEN OnStorage(view, storage') ELSE view
    IN  /\ messages' = seen.messages
        /\ conversationId' = seen.conversationId

\* What a step of the second tab leaves alone in this one.
OtherTabStep(op) ==
    /\ ThisTabSees
    /\ last' = Last(op, Null, Null, FALSE)
    /\ UNCHANGED <<now, lang, mounted, inputValue, isTyping, retryUntil, retrySecondsLeft,
                   timers, inflight, sent, mounts, appVars>>

\* The second tab opens the chat view: MountView on its own state.
OtherMount ==
    /\ ~other.mounted
    /\ LET r == LoadSaved(storage.chatMessages, now)
           msgs == IF r.kind = "loaded" THEN r.msgs ELSE <<SeedMessage(lang, now)>>
           convId == IF Truthy(storage.conversationId)
                     THEN storage.conversationId.s ELSE <<>>
       IN  /\ other' = TabView(TRUE, msgs, convId, FALSE)
           /\ storage' = SaveConversationId(SaveMessages(storage, msgs), convId)
    /\ OtherTabStep("tab-mount")

\* handleSendMessage in the second tab, up to the await of fetch
OtherSend(v) ==
    /\ other.mounted
    /\ ~other.pending
    /\ Trim(v) # <<>>
    /\ Len(SelectSeq(other.messages, LAMBDA m : m.sender = "user")) < MaxTabSends
    /\ other' = [other EXCEPT !.messages = AppendMessage(@, UserMessage(v, now)),
                              !.pending = TRUE]
    /\ storage' = SaveMessages(storage, other'.messages)
    /\ OtherTabStep("tab-send")

\* handleSendMessage in the second tab, after the await of fetch
OtherSettle(resp) ==
    /\ other.mounted
    /\ other.pending
    /\ LET convId == IF Branch(resp) = "success" /\ Truthy(resp.body.conversation_id)
                     THEN resp.body.conversation_id.s
                     ELSE other.conversationId
           st == SaveMessages(storage, AppendMessage(other.messages, ReplyMessage(resp, now)))
       IN  /\ other' = [other EXCEPT !.messages = AppendMessage(@, ReplyMessage(resp, now)),
                                     !.conversationId = convId,
                                     !.pending = FALSE]
           /\ storage' = IF convId # other.conversationId
                         THEN SaveConversationId(st, convId) ELSE st
    /\ OtherTabStep("tab-settle")

\* clearChatHistory in the second tab
OtherClear ==
    /\ other.mounted
    /\ other' = [other EXCEPT !.messages = <<SeedMessage(lang, now)>>,
                              !.conversationId = <<>>]
    /\ storage' = RemoveBoth(storage)
    /\ OtherTabStep("tab-clear")

\* Two tabs on the same localStorage, one exchange each.
TabResponses ==
    { Reject,
      Http(200, Null, JObj(Hi, JStr(<<"a">>), Undefined)),
      Http(200, Null, JObj(Hi, JStr(<<"b">>), Undefined)) }

TabInputs == { <<"yo">> }

NextTabs ==
    \/ Mount
    \/ \E v \in InputSamples : ChangeInput(v)
    \/ sent < MaxTabSends /\ ClickSend
    \/ clearChatHistory
    \/ \E req \in inflight, resp \in TabResponses : Settle(req, resp)
    \/ OtherMount
    \/ \E v \in TabInputs : OtherSend(v)
    \/ \E resp \in TabResponses : OtherSettle(resp)
    \/ OtherClear

SpecTabs == Init /\ [][NextTabs]_vars

\* App alone: the page loaded at a url, the buttons of the header and the
\* post links, and the browser's back and forward buttons.
PostIds == {<<"p1">>, <<"p2">>}

InitialUrls ==
    {Url("blog", <<>>), Url("admin", <<>>), Url("search", <<>>),
     Url("post-detail", <<"p1">>)}

InitApp == InitAt(InitialStorages, InitialUrls)

\* A click that pushes a history entry, while the history is short.
Click(navigate) ==
    /\ cursor < MaxEntries
    /\ navigate
    /\ UNCHANGED mounts

NextApp ==
    \/ \E p \in PostIds : Click(navigateToPost(p))
    \/ Click(navigateToBlog)
    \/ Click(navigateToAdmin)
    \/ Click(navigateToSearch)
    \/ Click(navigateToChat)
    \/ Back
    \/ Forward

SpecApp == InitApp /\ [][NextApp]_vars

\* Leaving the chat view and coming back to it while the endpoint answers.
RemountResponses ==
    { Reject,
      Http(200, Null, JObj(Hi, JStr(<<"a">>), Undefined)),
      Http(429, JStr(<<"2">>), Detail(<<>>)) }

NextRemount ==
    \/ MountUpTo(MaxRemounts)
    \/ Unmount
    \/ \E v \in InputSamples : ChangeInput(v)
    \/ ClickSend
    \/ \E req \in inflight, resp \in RemountResponses : Settle(req, resp)

SpecRemount == Init /\ [][NextRemount]_vars

----------------------------------------------------------------------------
(* Properties *)

\* The steps that reconcile the response of a fetch into a mounted view.
SettleOps == {"success", "rate", "error", "settle"}

LastMessage == messages[Len(messages)]

IsSeed(m) == m.id = 1 /\ m.sender = "ai"
NotSeed(m) == ~IsSeed(m)

\* C1: right after clearChatHistory and the effects it triggers, whatever the
\* view was doing (idle, a request in flight, the backoff armed), messages is
\* exactly the assistant welcome message with id '1', conversationId is
\* empty, and the entries 'chatMessages' and 'conversationId' are absent.
C1_ResetYieldsSeed ==
    last.op = "clear" =>
        /\ Len(messages) = 1
        /\ messages[1].id = 1
        /\ messages[1].sender = "ai"
        /\ messages[1].text = Welcome(lang)
        /\ conversationId = <<>>
        /\ storage.chatMessages = Null
        /\ storage.conversationId = Null

\* A reset while a request is in flight, with a conversation on record.
C1_Witness ==
    /\ last.op = "clear"
    /\ isTyping
    /\ \E r \in inflight : r.live /\ r.payload.conversation_id = JStr(<<"a">>)

\* C2: every step but a reset, a mount and an unmount leaves the earlier
\* message sequence a prefix of the later one: a send and each outcome of a
\* request (success, 429, failure) add one message at the end and edit,
\* remove or reorder none.
C2_AppendOnly ==
    [][ /\ (last'.op \notin {"clear", "mount", "unmount"} => IsPrefixOf(messages, messages'))
        /\ (last'.op \in {"send", "success", "rate", "error"} =>
                Len(messages') = Len(messages) + 1) ]_vars

\* A second exchange ended by a 429 notice, on top of the first.
C2_Witness ==
    /\ last.op = "rate"
    /\ Len(messages) = 5
    /\ messages[2].sender = "user"
    /\ messages[3].sender = "ai"

\* C3: the conversation_history of a request is the last min(10, k) of the k
\* messages that came before the input and are not the seed, in order, as
\* {role, content}; the seed takes no place and the input is not in it.
C3_HistoryWindow ==
    last.op = "send" =>
        LET prior == SubSeq(messages, 1, Len(messages) - 1)
        IN  last.req.payload.conversation_history =
                MapSeq(LastN(SelectSeq(prior, NotSeed), HistoryWindow), HistoryEntry)

\* C4: a 2xx response with the JSON body {response: r, conversation_id: c},
\* c not empty, adds exactly one assistant message with text r at the end of
\* the session (so after the user message of the exchange), makes
\* conversationId c, and leaves the backoff disarmed.
C4_Success ==
    [][ LET resp == last'.resp
        IN  ( /\ last'.op \in SettleOps
              /\ resp.kind = "http"
              /\ resp.status \in 200 .. 299
              /\ resp.body.t = "object"
              /\ resp.body.response.t = "string"
              /\ resp.body.conversation_id.t = "string"
              /\ resp.body.conversation_id.s # <<>> )
            => /\ Len(messages') = Len(messages) + 1
               /\ SubSeq(messages', 1, Len(messages)) = messages
               /\ messages'[Len(messages')].sender = "ai"
               /\ messages'[Len(messages')].text = resp.body.response.s
               /\ (\E i \in 1 .. Len(messages) :
                       /\ messages[i].sender = "user"
                       /\ messages[i].text = last'.req.payload.message)
                  => /\ messages[Len(messages)].sender = "user"
                     /\ messages[Len(messages)].text = last'.req.payload.message
               /\ conversationId' = resp.body.conversation_id.s
               /\ retryUntil = Null
               /\ retryUntil' = Null
               /\ ~last'.raised ]_vars

\* A success that replaces the conversation id "a" by "b".
C4_Witness ==
    /\ last.op = "success"
    /\ last.req.payload.conversation_id = JStr(<<"a">>)
    /\ conversationId = <<"b">>
    /\ LastMessage.text = <<"hi">>
    /\ messages[Len(messages) - 1].sender = "user"

\* A Retry-After header that is a positive decimal integer.
PositiveHeader(ra) ==
    /\ ra.t = "string"
    /\ ra.s # <<>>
    /\ \A i \in 1 .. Len(ra.s) : ra.s[i] \in Digits
    /\ DecimalValue(ra.s) > 0

\* C5: after a 429 response whose Retry-After header is a positive integer
\* N, retrySecondsLeft is N as soon as the backoff is armed; it never grows
\* while the backoff stays armed; after the k-th one-second tick it is N - k
\* (the next tick is due (N - retrySecondsLeft + 1) seconds after the
\* arming), so that it is 0 at the N-th tick, at which the deadline is
\* cleared and the input is enabled again, the button with it once the input
\* is not blank and no request is in flight.
C5_Countdown ==
    /\ [] ( (last.op = "rate" /\ PositiveHeader(last.resp.retryAfter)) =>
                LET n == DecimalValue(last.resp.retryAfter.s)
                IN  /\ retrySecondsLeft = n
                    /\ retryUntil = JNum(now + n * MsPerSecond)
                    /\ timers = {Interval(now + MsPerSecond, retryUntil.n)} )
    /\ [] ( Truthy(retryUntil) =>
                /\ retrySecondsLeft >= 1
                /\ \E i \in timers :
                        retryUntil.n - i.due = (retrySecondsLeft - 1) * MsPerSecond )
    /\ [][ (Truthy(retryUntil) /\ Truthy(retryUntil')) =>
                retrySecondsLeft' <= retrySecondsLeft ]_vars
    /\ [][ (Truthy(retryUntil) /\ last'.op = "tick") =>
                IF retrySecondsLeft = 1
                THEN /\ retryUntil' = Null
                     /\ retrySecondsLeft' = 0
                     /\ timers' = {}
                     /\ InputDisabled' = isTyping'
                     /\ ButtonDisabled' = (Trim(inputValue') = <<>> \/ isTyping')
                ELSE /\ retrySecondsLeft' = retrySecondsLeft - 1
                     /\ retryUntil' = retryUntil ]_vars

\* The second tick after a 429 with Retry-After: 2 has just disarmed the
\* backoff.
C5_Witness ==
    /\ last.op = "tick"
    /\ retryUntil = Null
    /\ retrySecondsLeft = 0
    /\ ~InputDisabled
    /\ LastMessage.text = RateLimitText(2)

\* Where in s a number ends that is followed by optional white space and
\* "second".
NumberEnds(s) ==
    {q \in 1 .. Len(s) :
        /\ s[q] \in Digits
        /\ \E p \in q .. Len(s) :
              /\ IsPrefixOf(Second, Drop(s, p))
              /\ \A j \in q + 1 .. p : s[j] = " "}

\* The first number of s that is followed by optional white space and
\* "second": all the digits up to its end.
FirstSecondNumber(s) ==
    LET q == Min(NumberEnds(s))
        a == Min({b \in 1 .. q : \A j \in b .. q : s[j] \in Digits})
    IN  DecimalValue(SubSeq(s, a, q))

\* The delay a 429 step has armed the backoff with is n seconds.
ArmedWith(n) ==
    /\ LastMessage.text = RateLimitText(n)
    /\ IF n > 0
       THEN /\ retryUntil = JNum(now + n * MsPerSecond)
            /\ retrySecondsLeft = n
       ELSE /\ retryUntil = Null
            /\ retrySecondsLeft = 0

\* C6: after a 429 response with no Retry-After header and a JSON body whose
\* 'detail' string contains digits, optional white space and "second", the
\* backoff is armed with the first such number as its delay in seconds.
C6_DelayFromBody ==
    ( /\ last.op = "rate"
      /\ last.resp.retryAfter = Null
      /\ last.resp.body.t = "object"
      /\ last.resp.body.detail.t = "string"
      /\ NumberEnds(last.resp.body.detail.s) # {} )
    => ArmedWith(FirstSecondNumber(last.resp.body.detail.s))

\* {"detail": "10 seconds or 20 seconds"} arms 10 seconds.
C6_Witness ==
    /\ last.op = "rate"
    /\ last.resp.retryAfter = Null
    /\ last.resp.body.t = "object"
    /\ last.resp.body.detail.t = "string"
    /\ Cardinality(NumberEnds(last.resp.body.detail.s)) = 2
    /\ retrySecondsLeft = 10
    /\ retryUntil = JNum(now + 10 * MsPerSecond)

\* The delay the priority order gives: the header when it holds an integer,
\* else the number of the body's detail, else the default.
PriorityDelay(resp) ==
    IF resp.retryAfter.t = "string" /\ ~parseInt(resp.retryAfter.s).isNaN
    THEN parseInt(resp.retryAfter.s).v
    ELSE IF /\ resp.body.t = "object"
            /\ resp.body.detail.t = "string"
            /\ NumberEnds(resp.body.detail.s) # {}
         THEN FirstSecondNumber(resp.body.detail.s)
         ELSE DefaultRetrySec

\* C7: on a 429 response the delay is the Retry-After header when it holds
\* integer seconds, else the number of the body's detail (also when a header
\* is present that is no integer), else 60 seconds.
C7_DelayPriority ==
    last.op = "rate" => LastMessage.text = RateLimitText(PriorityDelay(last.resp))

\* Contents of 'chatMessages' that are no usable array of messages.
Unusable(x) ==
    /\ x.t = "text"
    /\ \/ x.doc.t \in {"invalid", "null", "number", "string", "object"}
       \/ /\ x.doc.t = "array"
          /\ \E i \in 1 .. Len(x.doc.items) : x.doc.items[i].t = "null"

\* C8: when 'chatMessages' does not parse as JSON, or parses to null, a
\* number, a string, an object or an array holding null, the load at mount
\* raises nothing and the session is exactly the welcome message.
C8_CorruptStorage ==
    (last.op = "mount" /\ Unusable(storage.chatMessages)) =>
        /\ ~last.raised
        /\ Len(messages) = 1
        /\ IsSeed(messages[1])
        /\ messages[1].text = Welcome(lang)

\* The mount on an array of two nulls, whose .map throws.
C8_Witness ==
    /\ last.op = "mount"
    /\ storage.chatMessages = Text(JArr(<<Null, Null>>))
    /\ Len(messages) = 1

\* The three failure causes of a send.
FailureCause(resp) ==
    \/ resp.kind = "reject"
    \/ resp.kind = "http" /\ resp.status \notin 200 .. 299 /\ resp.status # 429
    \/ resp.kind = "http" /\ resp.status \in 200 .. 299
          /\ resp.body.t \in {"invalid", "null"}

\* C9: when the fetch rejects, when the status is neither 2xx nor 429, and
\* when the 2xx body is no JSON or is JSON null, exactly one assistant
\* message with the fixed apology is added at the end, conversationId and
\* the backoff deadline stay as they were, and the promise of
\* handleSendMessage resolves.
C9_FailureNotice ==
    [][ (last'.op \in SettleOps /\ FailureCause(last'.resp)) =>
            /\ Len(messages') = Len(messages) + 1
            /\ SubSeq(messages', 1, Len(messages)) = messages
            /\ messages'[Len(messages')].sender = "ai"
            /\ messages'[Len(messages')].text = ErrorText
            /\ conversationId' = conversationId
            /\ retryUntil' = retryUntil
            /\ ~last'.raised ]_vars

\* A 2xx response with the body null, in a conversation that has an id.
C9_Witness ==
    /\ last.op = "error"
    /\ last.resp.kind = "http"
    /\ last.resp.status = 200
    /\ last.resp.body = Null
    /\ conversationId = <<"a">>
    /\ LastMessage.text = ErrorText

\* C10: while a backoff deadline is set, the text input and the send button
\* are disabled and no request is issued: the step taken last is never a
\* send.
C10_BackoffGatesSend ==
    Truthy(retryUntil) =>
        /\ InputDisabled
        /\ ButtonDisabled
        /\ last.op \notin {"send", "send-empty"}

\* The backoff one tick into its countdown, the request that armed it
\* settled.
C10_Witness ==
    /\ Truthy(retryUntil)
    /\ last.op = "tick"
    /\ retrySecondsLeft = 1
    /\ ~isTyping
    /\ InputDisabled

\* C11: while a chat request is outstanding, isTyping is true and the text
\* input and the send button are disabled, from the send to the step that
\* reconciles its outcome; so at most one chat request is outstanding at any
\* time.
C11_OneExchange ==
    /\ Cardinality(inflight) <= 1
    /\ (mounted /\ inflight # {}) => (isTyping /\ InputDisabled /\ ButtonDisabled)

\* A text of white space only, the empty text included.
Blank(s) == \A i \in 1 .. Len(s) : s[i] = " "

\* C12: a run of handleSendMessage on an input that is empty or white space
\* only issues no request and leaves messages, conversationId, isTyping,
\* retryUntil, retrySecondsLeft, the input value and both storage entries as
\* they were.
C12_EmptySendNoOp ==
    [][ (last'.op \in {"send", "send-empty"} /\ Blank(inputValue)) =>
            /\ inflight' = inflight
            /\ sent' = sent
            /\ UNCHANGED <<messages, conversationId, isTyping, retryUntil,
                           retrySecondsLeft, inputValue, storage>> ]_vars

\* Enter was pressed on an input of white space, in a session that already
\* holds an exchange.
C12_Witness ==
    /\ last.op = "send-empty"
    /\ inputValue = <<" ">>
    /\ Len(messages) > 1
    /\ storage.chatMessages = Serialize(messages)

\* The least k >= 0 with k seconds >= ms milliseconds: max(0, ceil(ms / 1s)).
SecondsCovering(ms) ==
    CHOOSE k \in 0 .. DefaultRetrySec + MaxSeconds + 1 :
        /\ k * MsPerSecond >= ms
        /\ (k > 0 => (k - 1) * MsPerSecond < ms)

\* C13: retrySecondsLeft is never negative, in no render the view commits;
\* right after the arming by a 429 response and right after every tick it is
\* max(0, ceil((retryUntil - now) / 1s)) while a deadline is set; it is 0
\* whenever no deadline is set.
C13_SecondsLeft ==
    /\ retrySecondsLeft >= 0
    /\ \A i \in DOMAIN last.committed : last.committed[i] >= 0
    /\ (last.op \in {"rate", "tick"} /\ Truthy(retryUntil)) =>
            retrySecondsLeft = SecondsCovering(retryUntil.n - now)
    /\ retryUntil = Null => retrySecondsLeft = 0

\* C14: once a deadline is set it is eventually cleared; each tick that
\* leaves seconds to wait schedules the next one a second after the time it
\* was due, and the tick that finds none clears the deadline and the
\* interval; at most one interval exists at any time, none while no deadline
\* is set, and none while the chat view is not mounted.
C14_CountdownEnds ==
    /\ Truthy(retryUntil) ~> (retryUntil = Null)
    /\ [][ last'.op = "tick" =>
              IF retrySecondsLeft' = 0
              THEN retryUntil' = Null /\ timers' = {}
              ELSE /\ retryUntil' = retryUntil
                   /\ \E i \in timers :
                         timers' = {Interval(i.due + MsPerSecond, retryUntil.n)} ]_vars
    /\ [] (Cardinality(timers) <= 1)
    /\ [] (retryUntil = Null => timers = {})
    /\ [] (~mounted => timers = {})

\* The countdown of a delay of one second, taken from the body, has ended
\* at its only tick.
C14_Witness ==
    /\ last.op = "tick"
    /\ retryUntil = Null
    /\ timers = {}
    /\ LastMessage.text = RateLimitText(1)

\* Whether 'chatMessages' holds the JSON text of an array.
IsStoredArray(x) == x.t = "text" /\ x.doc.t = "array"

\* Whether the session msgs is the stored array items, loaded at time t:
\* same length and order, ids, texts and senders as stored, every stored
\* timestamp as the point in time it denotes, a missing one as t.
LoadedFrom(msgs, items, t) ==
    /\ Len(msgs) = Len(items)
    /\ \A i \in 1 .. Len(items) :
        /\ items[i].t = "message"
        /\ msgs[i].id = items[i].id
        /\ msgs[i].text = items[i].text
        /\ msgs[i].sender = items[i].sender
        /\ msgs[i].timestamp =
              [t |-> "date", ms |-> IF items[i].timestamp.t = "iso"
                                    THEN items[i].timestamp.ms ELSE t]

FreshSeed(msgs, t) ==
    msgs = <<[id |-> 1, text |-> Welcome(lang), sender |-> "ai",
              timestamp |-> [t |-> "date", ms |-> t]]>>

\* C15 as stated: on mount a stored 'chatMessages' array is loaded if and
\* only if its length is greater than 1, keeping order, ids, texts and
\* senders, its timestamps points in time again; with length 0 or 1 the
\* session is the fresh seed.
C15_LoadIffLong ==
    [][ (last'.op = "mount" /\ IsStoredArray(storage.chatMessages)) =>
            LET items == storage.chatMessages.doc.items
            IN  IF Len(items) > 1
                THEN LoadedFrom(messages', items, now)
                ELSE FreshSeed(messages', now) ]_vars

\* C15, amended: on mount a stored 'chatMessages' array is loaded if and
\* only if its length is greater than 1 and none of its elements is null;
\* then the messages keep order, ids, texts and senders, every stored
\* timestamp is the point in time it denotes and a missing one is the time
\* of the load; otherwise the session is the fresh seed.
C15_LoadSaved ==
    [][ (last'.op = "mount" /\ IsStoredArray(storage.chatMessages)) =>
            LET items == storage.chatMessages.doc.items
            IN  IF Len(items) > 1 /\ \A i \in 1 .. Len(items) : items[i] # Null
                THEN LoadedFrom(messages', items, now)
                ELSE FreshSeed(messages', now) ]_vars

\* A stored exchange of three messages has been loaded, its last timestamp
\* a point in time again.
C15_Witness ==
    /\ last.op = "mount"
    /\ Len(messages) = 3
    /\ messages[3].timestamp = [t |-> "date", ms |-> 1030]
    /\ messages[3].id = 1031

\* Whether the stored value x is the JSON text of the sequence msgs, element
\* by element, each timestamp as its ISO text.
MirrorOf(x, msgs) ==
    /\ IsStoredArray(x)
    /\ Len(x.doc.items) = Len(msgs)
    /\ \A i \in 1 .. Len(msgs) :
        /\ x.doc.items[i].id = msgs[i].id
        /\ x.doc.items[i].text = msgs[i].text
        /\ x.doc.items[i].sender = msgs[i].sender
        /\ x.doc.items[i].timestamp = [t |-> "iso", ms |-> msgs[i].timestamp.ms]

\* C16: no step writes a sequence of length 1 or less to 'chatMessages' (a
\* step that changes the entry removes it or writes more than one message),
\* and after every step of the mounted view, its effects included,
\* 'chatMessages' is the serialization of the whole of messages whenever
\* messages is longer than 1.
C16_MessagesMirrored ==
    /\ [][ storage'.chatMessages # storage.chatMessages =>
              \/ storage'.chatMessages = Null
              \/ /\ IsStoredArray(storage'.chatMessages)
                 /\ Len(storage'.chatMessages.doc.items) > 1 ]_vars
    /\ [] ( (mounted /\ Len(messages) > 1) => MirrorOf(storage.chatMessages, messages) )

\* The reply of a first exchange has been appended and stored.
C16_Witness ==
    /\ last.op = "success"
    /\ Len(messages) = 3
    /\ Len(storage.chatMessages.doc.items) = 3
    /\ storage.chatMessages.doc.items[3].text = <<"hi">>

\* C17: whenever the view is mounted with a non-empty conversationId, the
\* effects of the step done, the entry 'conversationId' equals it; and no
\* step writes the empty string to that entry.
C17_ConversationIdMirrored ==
    /\ [] ( (mounted /\ conversationId # <<>>) =>
                storage.conversationId = [t |-> "string", s |-> conversationId] )
    /\ [][ storage'.conversationId # storage.conversationId =>
              \/ storage'.conversationId = Null
              \/ /\ storage'.conversationId.t = "string"
                 /\ storage'.conversationId.s # <<>> ]_vars

\* A success has replaced the stored conversation id 'a' by 'b'.
C17_Witness ==
    /\ last.op = "success"
    /\ conversationId = <<"b">>
    /\ storage.conversationId = [t |-> "string", s |-> <<"b">>]
    /\ last.req.payload.conversation_id = [t |-> "string", s |-> <<"a">>]

\* C18: the payload of every request leaves conversation_id out when
\* conversationId is empty and carries conversationId otherwise; a success
\* that returned an id makes it the conversationId, which then changes only
\* by clearChatHistory, by a later success, or with the view: the id is in
\* storage when the view is unmounted and is taken from there at the mount.
C18_RequestCarriesId ==
    /\ [] ( last.op = "send" =>
               last.req.payload.conversation_id =
                   IF conversationId = <<>> THEN Undefined
                   ELSE [t |-> "string", s |-> conversationId] )
    /\ [] ( (last.op = "success" /\ Truthy(last.resp.body.conversation_id)) =>
               conversationId = last.resp.body.conversation_id.s )
    /\ [][ conversationId' # conversationId =>
              last'.op \in {"clear", "success", "mount", "unmount"} ]_vars
    /\ [][ (last'.op = "unmount" /\ conversationId # <<>>) =>
              storage'.conversationId = [t |-> "string", s |-> conversationId] ]_vars
    /\ [][ (last'.op = "mount" /\ Truthy(storage.conversationId)) =>
              conversationId' = storage.conversationId.s ]_vars

\* The request after a success that returned 'b' carries 'b'.
C18_Witness ==
    /\ last.op = "send"
    /\ sent = 2
    /\ conversationId = <<"b">>
    /\ last.req.payload.conversation_id = [t |-> "string", s |-> <<"b">>]

\* C19: the ids of the messages of the session are pairwise distinct.
C19_DistinctIds ==
    \A i, j \in 1 .. Len(messages) : i # j => messages[i].id # messages[j].id

\* C20: while the view is mounted, messages is not empty, its first element
\* is the assistant welcome message with id '1', and no later element is.
C20_SeedFirst ==
    mounted =>
        /\ Len(messages) >= 1
        /\ IsSeed(messages[1])
        /\ messages[1].text \in {Welcome(l) : l \in Languages}
        /\ \A i \in 2 .. Len(messages) : ~IsSeed(messages[i])

\* A stored session was loaded and a reply was appended to it.
C20_Witness ==
    /\ last.op \in {"success", "rate", "error"}
    /\ Len(messages) = 15
    /\ IsSeed(messages[1])

\* The steps of this tab's ChatPage that append, reset or load, and those of
\* the second tab's.
ThisTabOps == {"mount", "send", "success", "rate", "error", "clear"}
OtherTabOps == {"tab-mount", "tab-send", "tab-settle", "tab-clear"}

\* C21: with two chat views on the same storage, a step of one tab's view
\* leaves the in-memory messages and conversationId of the other tab as
\* they were, and whenever a step changes 'chatMessages' the entry becomes
\* the whole sequence of the tab that took the step (or is removed by its
\* reset), whatever the other tab had stored there.
C21_TabsIndependent ==
    /\ [][ last'.op \in ThisTabOps =>
              /\ other'.messages = other.messages
              /\ other'.conversationId = other.conversationId ]_vars
    /\ [][ last'.op \in OtherTabOps => UNCHANGED <<messages, conversationId>> ]_vars
    /\ [][ (last'.op \in ThisTabOps /\ storage'.chatMessages # storage.chatMessages) =>
              \/ last'.op = "clear" /\ storage'.chatMessages = Null
              \/ MirrorOf(storage'.chatMessages, messages') ]_vars
    /\ [][ (last'.op \in OtherTabOps /\ storage'.chatMessages # storage.chatMessages) =>
              \/ last'.op = "tab-clear" /\ storage'.chatMessages = Null
              \/ MirrorOf(storage'.chatMessages, other'.messages) ]_vars

\* Both tabs hold an exchange of their own; this tab wrote last, and the
\* entry has nothing of the other tab's exchange.
C21_Witness ==
    /\ mounted
    /\ other.mounted
    /\ last.op \in {"success", "error"}
    /\ Len(other.messages) = 3
    /\ other.messages[2].text = <<"yo">>
    /\ MirrorOf(storage.chatMessages, messages)
    /\ \A i \in 1 .. Len(messages) : messages[i].text # <<"yo">>

\* The delays a 429 response can announce, in seconds.
Delays == -1 .. DefaultRetrySec

\* C22: the step that settles a send with status 429 appends exactly one
\* assistant message, which reports the delay d of the response and is not
\* the error notice; the render it commits shows d seconds, and the backoff
\* deadline is now + d seconds (a deadline that is not in the future is taken
\* back at once by the countdown); conversationId stays, the in-flight flag
\* is cleared and nothing is raised.
C22_RateLimited ==
    [][ (last'.op \in SettleOps /\ last'.resp.status = 429) =>
            /\ Len(messages') = Len(messages) + 1
            /\ SubSeq(messages', 1, Len(messages)) = messages
            /\ messages'[Len(messages')].sender = "ai"
            /\ messages'[Len(messages')].text # ErrorText
            /\ \E d \in Delays :
                  /\ messages'[Len(messages')].text = RateLimitText(d)
                  /\ last'.committed = <<d>>
                  /\ IF d > 0
                     THEN /\ retryUntil' = JNum(now + d * MsPerSecond)
                          /\ retrySecondsLeft' = d
                          /\ \E i \in timers' : i.until = now + d * MsPerSecond
                     ELSE /\ retryUntil' = Null
                          /\ retrySecondsLeft' = 0
                          /\ timers' = {}
            /\ conversationId' = conversationId
            /\ ~isTyping'
            /\ ~last'.raised ]_vars

\* A 429 whose Retry-After header says 2 has armed the backoff.
C22_Witness ==
    /\ last.op = "rate"
    /\ last.resp.retryAfter = JStr(<<"2">>)
    /\ retryUntil = JNum(now + 2 * MsPerSecond)
    /\ LastMessage.text = RateLimitText(2)
    /\ ~isTyping

\* C23: in the conversation_history of a request the seed has no entry,
\* whether it was created with the Thai or the English welcome text, and
\* every message before the input that is not the seed and is among the last
\* HistoryWindow of them has its entry.
C23_FilterSeedOnly ==
    last.op = "send" =>
        LET prior == SubSeq(messages, 1, Len(messages) - 1)
            hist == last.req.payload.conversation_history
            others == SelectSeq(prior, NotSeed)
        IN  /\ \A j \in DOMAIN prior :
                  (IsSeed(prior[j]) /\ \E l \in Languages : prior[j].text = Welcome(l))
                      => \A i \in DOMAIN hist : hist[i] # HistoryEntry(prior[j])
            /\ \A j \in DOMAIN others :
                  j > Len(others) - HistoryWindow
                      => \E i \in DOMAIN hist : hist[i] = HistoryEntry(others[j])

\* C24: the step that accepts a send puts the user message with the text of
\* the request at the end of the session, empties the input and issues the
\* request, which was not in flight before; while the view stays mounted
\* the session changes otherwise only by a reset or by the settling of a
\* request that was in flight, which puts one assistant message at the end,
\* so behind the user message of its exchange.
C24_UserBeforeRequest ==
    [][ /\ last'.op = "send" =>
              /\ Len(messages') = Len(messages) + 1
              /\ SubSeq(messages', 1, Len(messages)) = messages
              /\ messages'[Len(messages')].sender = "user"
              /\ messages'[Len(messages')].text = last'.req.payload.message
              /\ inputValue' = <<>>
              /\ last'.req \notin inflight
              /\ last'.req \in inflight'
        /\ (/\ mounted /\ mounted'
            /\ messages' # messages
            /\ last'.op \notin {"send", "clear"}) =>
              /\ last'.op \in SettleOps
              /\ last'.req \in inflight
              /\ last'.req \notin inflight'
              /\ Len(messages') = Len(messages) + 1
              /\ SubSeq(messages', 1, Len(messages)) = messages
              /\ messages'[Len(messages')].sender = "ai"
              /\ \A k \in DOMAIN messages' :
                    (/\ messages'[k].sender = "user"
                     /\ messages'[k].text = last'.req.payload.message)
                        => k < Len(messages') ]_vars

\* The reply of an exchange right behind its user message.
C24_Witness ==
    /\ last.op = "success"
    /\ Len(messages) = 3
    /\ messages[2].sender = "user"
    /\ messages[2].text = last.req.payload.message
    /\ messages[3].sender = "ai"
    /\ inputValue = <<>>

\* C25: the response to a request whose view has been unmounted changes
\* neither storage entry and no state of a view; when the view is unmounted
\* behind the user message of an exchange, 'chatMessages' holds the session
\* up to that message; and a mount on a 'chatMessages' that ends with a user
\* message shows exactly the stored messages, the user message last, with
\* the backoff disarmed.
C25_DroppedAfterUnmount ==
    /\ [][ (last'.op \in SettleOps \cup {"dropped"} /\ ~last'.req.live) =>
              UNCHANGED <<storage, mounted, messages, conversationId, isTyping,
                          retryUntil, retrySecondsLeft, timers>> ]_vars
    /\ [][ (last'.op = "unmount" /\ inflight # {} /\ LastMessage.sender = "user") =>
              /\ storage' = storage
              /\ MirrorOf(storage.chatMessages, messages) ]_vars
    /\ [][ ( /\ last'.op = "mount"
             /\ IsStoredArray(storage.chatMessages)
             /\ Len(storage.chatMessages.doc.items) > 1
             /\ storage.chatMessages.doc.items[Len(storage.chatMessages.doc.items)].sender
                    = "user" ) =>
              /\ LoadedFrom(messages', storage.chatMessages.doc.items, now)
              /\ messages'[Len(messages')].sender = "user"
              /\ retryUntil' = Null
              /\ retrySecondsLeft' = 0
              /\ timers' = {} ]_vars

\* The view is back, the response of the exchange begun before the unmount
\* has arrived, and the session still ends with the user message.
C25_Witness ==
    /\ last.op = "dropped"
    /\ mounted
    /\ mounts = 2
    /\ Len(messages) = 2
    /\ LastMessage.sender = "user"
    /\ LastMessage.text = last.req.payload.message
    /\ retryUntil = Null

\* The steps in which a fetch settles, its view mounted or not.
FetchSettles == SettleOps \cup {"dropped"}

\* The step of an accepted send adds the user message and nothing else.
AddsUserMessage ==
    /\ Len(messages') = Len(messages) + 1
    /\ SubSeq(messages', 1, Len(messages)) = messages
    /\ messages'[Len(messages')].sender = "user"

\* The step adds one assistant message and nothing else, and the in-flight
\* flag is false after it.
AddsAssistantMessage ==
    /\ Len(messages') = Len(messages) + 1
    /\ SubSeq(messages', 1, Len(messages)) = messages
    /\ messages'[Len(messages')].sender = "ai"
    /\ ~isTyping'

\* C26 as stated: an accepted send adds the user message, every step in
\* which its fetch settles adds exactly one assistant message and leaves the
\* in-flight flag false, and no other step of the view adds a message.
C26_TwoMessages ==
    [][ /\ last'.op = "send" => AddsUserMessage
        /\ last'.op \in FetchSettles => AddsAssistantMessage
        /\ (mounted /\ mounted' /\ last'.op \notin FetchSettles \cup {"send"})
              => Len(messages') <= Len(messages) ]_vars

\* C26, amended: an accepted send adds the user message; the step in which
\* its fetch settles adds exactly one assistant message and leaves the
\* in-flight flag false if the view that sent it is still mounted, and adds
\* nothing if that view has been unmounted; no other step of the view adds a
\* message.
C26_TwoMessagesWhileMounted ==
    [][ /\ last'.op = "send" => AddsUserMessage
        /\ (last'.op \in FetchSettles /\ last'.req.live) => AddsAssistantMessage
        /\ (last'.op \in FetchSettles /\ ~last'.req.live) => messages' = messages
        /\ (mounted /\ mounted' /\ last'.op \notin FetchSettles \cup {"send"})
              => Len(messages') <= Len(messages) ]_vars

\* An exchange ended by the error notice: two messages behind the seed, the
\* in-flight flag false.
C26_Witness ==
    /\ last.op = "error"
    /\ Len(messages) = 3
    /\ messages[2].sender = "user"
    /\ messages[3].sender = "ai"
    /\ ~isTyping

\* C27: when the fetch of a mounted view settles on a session that a reset
\* has left with the seed alone, an empty conversationId and no storage
\* entry, the session, the conversationId and both storage entries stay as
\* the reset left them.
C27_ResetNotUndone ==
    [][ ( /\ last'.op \in FetchSettles
          /\ last'.req.live
          /\ Len(messages) = 1
          /\ IsSeed(messages[1])
          /\ conversationId = <<>>
          /\ storage = RemoveBoth(storage) ) =>
            /\ messages' = messages
            /\ conversationId' = <<>>
            /\ storage' = storage ]_vars

\* C28: a mount that loads no messages, so that the session is the seed
\* alone, leaves conversationId empty.
C28_IdOnlyWithConversation ==
    (last.op = "mount" /\ Len(messages) = 1 /\ IsSeed(messages[1])) =>
        conversationId = <<>>

\* C29: a reset leaves retryUntil, retrySecondsLeft, the countdown and
\* isTyping as they were, so the text input and the send button are disabled
\* after it exactly if they were before it: disabled during a backoff and
\* while a request is in flight.
C29_ResetKeepsLock ==
    [][ last'.op = "clear" =>
            /\ UNCHANGED <<retryUntil, retrySecondsLeft, isTyping, timers, inflight>>
            /\ InputDisabled' = InputDisabled
            /\ ButtonDisabled' = ButtonDisabled
            /\ (isTyping \/ retryUntil # Null) => (InputDisabled' /\ ButtonDisabled') ]_vars

\* A reset during an active backoff: the session is the seed, the deadline
\* stands and the send button is disabled.
C29_Witness ==
    /\ last.op = "clear"
    /\ retryUntil # Null
    /\ retrySecondsLeft > 0
    /\ Len(messages) = 1
    /\ ButtonDisabled

\* C30: after a step back or forward in the history, currentView and
\* selectedPostId are those of the entry that became current, the entry of
\* the page load included; and selectedPostId is empty whenever currentView
\* is not 'post-detail'.
C30_ViewFollowsHistory ==
    /\ [][ (entries' = entries /\ cursor' # cursor) =>
              /\ currentView' = entries[cursor'].url.view
              /\ selectedPostId' = entries[cursor'].url.postId ]_vars
    /\ [](currentView # "post-detail" => selectedPostId = <<>>)

====
